---------------------------- MODULE Spec2Model ----------------------------
(***************************************************************************)
(* Model of the slack-agent turn execution engine (ReactAgent graph,       *)
(* invoke_agent orchestrator, OpenSourceToolManager authorization gate)    *)
(* and of the inbound event dedup guard (deduplicate_events middleware).   *)
(*                                                                         *)
(* The graph is run by LangGraph's Pregel loop: a run proceeds in          *)
(* supersteps, each executing every scheduled node against the same state  *)
(* snapshot, then applying their writes, evaluating the outgoing edges and *)
(* saving a checkpoint for the thread.  A node that raises fails the whole *)
(* invocation and leaves the last saved checkpoint in place.               *)
(***************************************************************************)
EXTENDS Naturals, Sequences, FiniteSets, TLC

VARIABLES
    store,              \* MemorySaver: thread_id -> latest checkpoint
    inv,                \* per request worker: the graph run it is executing
    resp,               \* per request worker: the last AgentResponse returned
    processed_events,   \* server.py deque of processed event ids
    event_lock,         \* server.py threading.Lock owner
    req,                \* per request worker: position inside deduplicate_events
    issued,             \* number of distinct event ids Slack has issued so far
    turns,              \* number of invoke_agent calls made so far
    authorized,         \* (tool, user) pairs whose OAuth flow the user completed
    auth_log,           \* the calls of authorize made so far, with their results
    posted,             \* messages the listeners posted to Slack, oldest first
    modal,              \* private_metadata of the modal Slack shows, if any
    lst,                \* the listener that is waiting for invoke_agent
    agents,             \* _agents: model name -> the ReactAgent cached for it
    created,            \* number of ReactAgent instances built per model name
    memory,             \* per ReactAgent: the threads its MemorySaver holds
    user_model,         \* the model selected in the user's settings
    call,               \* per request worker: position inside invoke_agent
    loop,               \* one turn followed step by step up to the step limit
    coral               \* the Coral main loop: position, iteration, chat history

vars == <<store, inv, resp, turns, processed_events, event_lock, req, issued,
          authorized, auth_log, posted, modal, lst,
          agents, created, memory, user_model, call, loop, coral>>
manager_vars == <<authorized, auth_log>>
slack_vars == <<posted, modal, lst>>
cache_vars == <<agents, created, memory, user_model, call>>
loop_vars == <<loop>>
coral_vars == <<coral>>
other_vars == <<manager_vars, slack_vars, cache_vars, loop_vars, coral_vars>>
engine_vars == <<store, inv, resp, turns>>
dedup_vars == <<processed_events, event_lock, req, issued>>

---------------------------------------------------------------------------
(* Bounds of the model *)

MaxMsgs == 6          \* messages held by one thread
MaxCalls == 2         \* tool calls in one model response
MaxTurns == 3         \* invoke_agent calls in one behaviour
MaxConcTurns == 2     \* invoke_agent calls in one behaviour of two workers
MaxEvents == 1002     \* distinct event ids issued in one behaviour

Workers == {"w1", "w2"}
WorkerOrder == [w \in Workers |-> IF w = "w1" THEN 1 ELSE 2]
Threads == {"t1", "t2"}
UserIds == {"None", "u1"}          \* "None": the payload carried no user
\* prompt and thread history a caller may pass to invoke_agent
Prompts == {"p1", "p2"}
\* prompt and thread history of the requests that start a fresh turn
FreshPrompts == {"p1"}

---------------------------------------------------------------------------
(* Values *)

None == "None"
END == "__end__"
Nodes == {"agent", "tools", "check_auth", "auth_interrupt"}

NoAuthMessage == [kind |-> "None", items |-> <<>>]

\* Python truthiness of a str | None value
Truthy(s) == s # None /\ s # ""
\* Python truthiness of the auth_message (None and "" are falsy)
TruthyMsg(m) == m.kind # "None" /\ m.kind # "empty"

Msg(role, content, tool_calls, tool_call_id) ==
    [role |-> role, content |-> content, tool_calls |-> tool_calls,
     tool_call_id |-> tool_call_id]

\* jerry.agent.utils.slack_to_markdown: rewrites Slack mrkdwn as markdown
slack_to_markdown(p) == CASE p = "p1" -> "p1_md" [] p = "p2" -> "p2_md" [] OTHER -> p

Contexts == {<<>>, <<Msg("user", "hist", <<>>, 0)>>}
FreshContexts == {<<>>}

---------------------------------------------------------------------------
(* OpenSourceToolManager *)

tools_registry == {"github", "google", "search", "web"}
auth_required_tools == {"github", "google"}
\* registry entries that define get_auth_url
has_get_auth_url == {"github", "google"}
\* names of the tools get_tools binds to the model and ToolNode can run
bound_tools == {"search_repositories", "scrape_website"}

\* names the model may put in a tool call
ToolNames == {"github", "scrape_website"}

\* a manager that asks authorization for every tool
requires_auth_any(tool_name) == tool_name \in auth_required_tools \cup bound_tools

requires_auth(tool_name) == tool_name \in auth_required_tools

\* PKCE code challenges Flow.authorization_url can draw: every Flow object
\* generates a random code verifier and puts its challenge into the URL
CodeChallenges == {"c1", "c2"}
NoChallenge == "c1"

\* GitHubTool.get_auth_url: an f-string of the environment and the user id
GitHubTool_get_auth_url(user_id) == <<"url", "github", user_id>>

\* GoogleTool.get_auth_url: a new Flow per call, state=user_id
GoogleTool_get_auth_url(user_id, code_challenge) ==
    <<"url", "google", user_id, code_challenge>>

\* tool.get_auth_url(user_id) for the registry entry of tool_name
get_auth_url(tool_name, user_id, code_challenge) ==
    IF tool_name = "google" THEN GoogleTool_get_auth_url(user_id, code_challenge)
    ELSE GitHubTool_get_auth_url(user_id)

\* an authorize whose result has the attributes status and url
authorize_object(tool_name, user_id, code_challenge) ==
    IF tool_name \notin auth_required_tools
    THEN [type |-> "object", status |-> "completed", url |-> <<"url", None, None>>]
    ELSE IF tool_name \in tools_registry /\ tool_name \in has_get_auth_url
    THEN [type |-> "object", status |-> "pending",
          url |-> get_auth_url(tool_name, user_id, code_challenge)]
    ELSE [type |-> "object", status |-> "completed", url |-> <<"url", None, None>>]

\* authorize returns a plain dict
authorize(tool_name, user_id, code_challenge) ==
    IF tool_name \notin auth_required_tools
    THEN [type |-> "dict", status |-> "completed", url |-> <<"url", None, None>>]
    ELSE IF tool_name \in tools_registry /\ tool_name \in has_get_auth_url
    THEN [type |-> "dict", status |-> "pending",
          url |-> get_auth_url(tool_name, user_id, code_challenge)]
    ELSE [type |-> "dict", status |-> "completed", url |-> <<"url", None, None>>]

\* attribute access that also succeeds on a dict
HasAttr_any(obj) == obj.type \in {"object", "dict"}

\* Python attribute access obj.name: a dict has no attribute for its keys
HasAttr(obj) == obj.type = "object"

---------------------------------------------------------------------------
(* ReactAgent nodes and edges.  A node result is                           *)
(*   [status, msgs, set_auth, auth, set_resume, resume, ran, goto]         *)
(* status: "ok" | "raise" | "interrupt"; msgs: messages to append;         *)
(* ran: tool calls dispatched; goto: nodes scheduled by outgoing edges.    *)

NodeResult(status, msgs, set_auth, auth, set_resume, resume, ran, goto) ==
    [status |-> status, msgs |-> msgs, set_auth |-> set_auth, auth |-> auth,
     set_resume |-> set_resume, resume |-> resume, ran |-> ran, goto |-> goto]

Raise == NodeResult("raise", <<>>, FALSE, NoAuthMessage, FALSE, None, <<>>, {})
ReturnState(goto) == NodeResult("ok", <<>>, FALSE, NoAuthMessage, FALSE, None, <<>>, goto)

Last(s) == s[Len(s)]

\* an edge that only looks at the first tool call of the response
should_continue_first(messages) ==
    LET tool_calls == Last(messages).tool_calls IN
    IF Len(tool_calls) = 0 THEN END
    ELSE IF Truthy(tool_calls[1].name) /\ requires_auth(tool_calls[1].name)
         THEN "check_auth"
         ELSE "tools"

\* an edge that leaves out tools_condition: a response without tool calls
\* is routed to tools
should_continue_always(messages) ==
    LET tool_calls == Last(messages).tool_calls IN
    IF \E k \in 1..Len(tool_calls) :
            Truthy(tool_calls[k].name) /\ requires_auth(tool_calls[k].name)
    THEN "check_auth"
    ELSE "tools"

\* tools_condition + should_continue: the conditional edge after agent
should_continue(messages) ==
    LET tool_calls == Last(messages).tool_calls IN
    IF Len(tool_calls) = 0 THEN END
    ELSE IF \E k \in 1..Len(tool_calls) :
                Truthy(tool_calls[k].name) /\ requires_auth(tool_calls[k].name)
         THEN "check_auth"
         ELSE "tools"

\* call_agent: the model's response is appended; calls is the sequence of
\* tool names of the response, fail a model invocation error
call_agent(ch, calls, fail) ==
    IF fail THEN Raise
    ELSE LET base == (Len(ch.messages) + 1) * (MaxCalls + 1)
             tcs == [k \in 1..Len(calls) |-> [name |-> calls[k], id |-> base + k]]
             ai == Msg("assistant", IF Len(calls) = 0 THEN "answer" ELSE "", tcs, 0)
             nxt == should_continue(ch.messages \o <<ai>>)
         IN NodeResult("ok", <<ai>>, FALSE, NoAuthMessage, FALSE, None, <<>>,
                       IF nxt = END THEN {} ELSE {nxt})

\* __create_url_string_for_slack
create_url_string_for_slack(tools_to_auth) ==
    IF Len(tools_to_auth) = 0 THEN [kind |-> "empty", items |-> <<>>]
    ELSE IF Len(tools_to_auth) = 1
         THEN [kind |-> "single", items |-> tools_to_auth]
         ELSE [kind |-> "numbered", items |-> tools_to_auth]

InToolsToAuth(tools_to_auth, name) ==
    \E k \in 1..Len(tools_to_auth) : tools_to_auth[k].name = name

\* the loop of check_auth over the tool calls; acc is tools_to_auth (a dict
\* keeps insertion order).  auth_response.status on a dict raises.
RECURSIVE CollectToolsToAuth(_, _, _, _, _)
CollectToolsToAuth(tool_calls, k, user_id, acc, code_challenge) ==
    IF k > Len(tool_calls) THEN [raised |-> FALSE, tools_to_auth |-> acc]
    ELSE LET tool_name == tool_calls[k].name IN
         IF Truthy(tool_name) /\ requires_auth(tool_name)
         THEN LET auth_response == authorize(tool_name, user_id, code_challenge) IN
              IF ~HasAttr(auth_response)
              THEN [raised |-> TRUE, tools_to_auth |-> acc]
              ELSE IF auth_response.status # "completed"
                      /\ ~InToolsToAuth(acc, tool_name)
                   THEN CollectToolsToAuth(tool_calls, k + 1, user_id,
                            Append(acc, [name |-> tool_name, url |-> auth_response.url]),
                            code_challenge)
                   ELSE CollectToolsToAuth(tool_calls, k + 1, user_id, acc, code_challenge)
         ELSE CollectToolsToAuth(tool_calls, k + 1, user_id, acc, code_challenge)

\* continue_after_check_auth: the conditional edge after check_auth
continue_after_check_auth(auth_message) ==
    IF TruthyMsg(auth_message) THEN "auth_interrupt" ELSE "tools"

check_auth(ch, user_id, code_challenge) ==
    IF ~Truthy(user_id)
    THEN ReturnState({continue_after_check_auth(ch.auth_message)})
    ELSE LET tool_calls == IF Len(ch.messages) = 0 THEN <<>>
                           ELSE Last(ch.messages).tool_calls
             r == CollectToolsToAuth(tool_calls, 1, user_id, <<>>, code_challenge)
         IN IF r.raised THEN Raise
            ELSE IF Len(r.tools_to_auth) > 0
            THEN LET auth_message == create_url_string_for_slack(r.tools_to_auth) IN
                 NodeResult("ok", <<>>, TRUE, auth_message, FALSE, None, <<>>,
                            {continue_after_check_auth(auth_message)})
            ELSE NodeResult("ok", <<>>, TRUE, NoAuthMessage, FALSE, None, <<>>,
                            {continue_after_check_auth(NoAuthMessage)})

\* auth_interrupt: no outgoing edge is declared for this node
auth_interrupt(ch) ==
    IF TruthyMsg(ch.auth_message) /\ ch.resume_input = None
    THEN NodeResult("interrupt", <<>>, FALSE, NoAuthMessage, FALSE, None, <<>>, {})
    ELSE IF ch.resume_input # None
         THEN NodeResult("ok", <<>>, TRUE, NoAuthMessage, TRUE, None, <<>>, {})
         ELSE ReturnState({})

\* handle_tool_error: one error message per tool call of the last message
handle_tool_error(messages) ==
    LET tool_calls == Last(messages).tool_calls IN
    [k \in 1..Len(tool_calls) |-> Msg("tool", "Error", <<>>, tool_calls[k].id)]

\* a tool node without the fallback: a failing tool fails the step
tool_node_nofallback(ch, outcome) ==
    IF Len(ch.messages) = 0 THEN Raise
    ELSE IF Last(ch.messages).role # "assistant" THEN Raise
    ELSE IF outcome = "error" THEN Raise
    ELSE LET tool_calls == Last(ch.messages).tool_calls IN
         NodeResult("ok",
             [k \in 1..Len(tool_calls) |->
                 Msg("tool",
                     IF tool_calls[k].name \in bound_tools THEN "result" ELSE "Error",
                     <<>>, tool_calls[k].id)],
             FALSE, NoAuthMessage, FALSE, None,
             [k \in 1..Len(tool_calls) |-> tool_calls[k]], {"agent"})

\* the tool node with its fallback.  outcome "error": ToolNode raised and the
\* fallback answered; "ok": every call produced its own tool message.
tool_node(ch, outcome) ==
    IF Len(ch.messages) = 0 THEN Raise
    ELSE IF Last(ch.messages).role # "assistant" THEN Raise
    ELSE LET tool_calls == Last(ch.messages).tool_calls
             ran == [k \in 1..Len(tool_calls) |-> tool_calls[k]]
         IN IF outcome = "error"
            THEN NodeResult("ok", handle_tool_error(ch.messages), FALSE, NoAuthMessage,
                            FALSE, None, ran, {"agent"})
            ELSE NodeResult("ok",
                     [k \in 1..Len(tool_calls) |->
                         Msg("tool",
                             IF tool_calls[k].name \in bound_tools THEN "result"
                             ELSE "Error",
                             <<>>, tool_calls[k].id)],
                     FALSE, NoAuthMessage, FALSE, None, ran, {"agent"})

---------------------------------------------------------------------------
(* Checkpoints and graph runs *)

Channels(messages, auth_message, resume_input) ==
    [messages |-> messages, auth_message |-> auth_message, resume_input |-> resume_input]

NoPendingWrites == [saved |-> FALSE, msgs |-> <<>>]

\* a checkpoint: the channel values, the nodes scheduled next, and the writes
\* of a tools task that finished in a superstep that failed as a whole
Checkpoint(exists, id, ch, next, pending_writes) ==
    [exists |-> exists, id |-> id, ch |-> ch, next |-> next,
     pending_writes |-> pending_writes]

NotFound == Checkpoint(FALSE, 0, Channels(<<>>, NoAuthMessage, None), {}, NoPendingWrites)

\* a store that is not keyed by thread: a save overwrites every thread
put_any(st, t, ckpt) == [s \in DOMAIN st |-> ckpt]

\* MemorySaver.put: ckpt becomes the latest checkpoint of thread t
put(st, t, ckpt) == [st EXCEPT ![t] = ckpt]

\* MemorySaver.get_tuple: the latest checkpoint of thread t
get_tuple(st, t) == st[t]

IdleRun == [pc |-> "idle", thread |-> "t1", user_id |-> None, resume |-> FALSE,
            ch |-> Channels(<<>>, NoAuthMessage, None), next |-> {},
            base |-> 0, ckpt_id |-> 0, start_len |-> 0,
            pending_writes |-> NoPendingWrites, ran |-> <<>>, visited |-> <<>>]

\* AgentResponse
AgentResponse(kind, content, auth_message, thread_id) ==
    [kind |-> kind, content |-> content, auth_message |-> auth_message,
     thread_id |-> thread_id]

NoResponse == AgentResponse("none", "", NoAuthMessage, "t1")

\* build_state: system prompt, then the context, then the user message
build_state(system, prompt, context) ==
    <<Msg("system", system, <<>>, 0)>> \o context
        \o <<Msg("user", slack_to_markdown(prompt), <<>>, 0)>>

\* sequences of tool names of length 0..MaxCalls
CallSeqs == UNION {[1..n -> ToolNames] : n \in 0..MaxCalls}

\* what the model invocation can yield for a conversation: an error, or a
\* response that leaves room for its tool results and the next response
ModelOutputs(messages) ==
    {[calls |-> <<>>, fail |-> TRUE]} \cup
    {[calls |-> c, fail |-> FALSE] : c \in
        {c \in CallSeqs :
            Len(messages) + 1 + Len(c) + (IF Len(c) > 0 THEN 1 ELSE 0) <= MaxMsgs}}

---------------------------------------------------------------------------
(* server.py: the deduplicate_events middleware *)

maxlen == 1000
dedup_event_types == {"message", "app_mention", "assistant"}
EventTypes == {"message", "reaction_added"}
NoEventId == 0            \* the body carries no event_id

IdleRequest == [pc |-> "idle", event_id |-> NoEventId, event_type |-> "message"]

\* a deque that starts dropping one entry too late
deque_append_late(d, x) ==
    IF Len(d) > maxlen THEN Append(Tail(d), x) ELSE Append(d, x)

\* deque(maxlen=1000).append: a full deque drops its leftmost entry
deque_append(d, x) ==
    IF Len(d) >= maxlen THEN Append(Tail(d), x) ELSE Append(d, x)

\* a record that only remembers the newest id
InRecord_newest(event_id) ==
    Len(processed_events) > 0 /\ Last(processed_events) = event_id

InRecord(event_id) ==
    \E k \in 1..Len(processed_events) : processed_events[k] = event_id

\* the ids a delivery may repeat: the first id ever issued, the newest
\* recorded id, and the ids other workers are handling right now
RetryIds ==
    (IF issued >= 1 THEN {1} ELSE {})
        \cup (IF Len(processed_events) > 0 THEN {Last(processed_events)} ELSE {})
        \cup {req[v].event_id : v \in {v \in Workers : req[v].pc # "idle"}}

\* model names of the settings; a ReactAgent is named by its model and the
\* serial number of its construction for that model
Models == {"gpt-4o", "mistral-large-latest"}
DefaultModel == "gpt-4o"
Serials == 1..Cardinality(Workers)
NoAgent == 0
NoCall == [pc |-> "idle", model |-> DefaultModel, agent |-> NoAgent,
           thread |-> "t1", resume |-> FALSE]

\* no turn is being followed
NoTurn == [pc |-> "idle", user_id |-> None, ch |-> Channels(<<>>, NoAuthMessage, None),
           next |-> {}, pending_writes |-> NoPendingWrites, step |-> 0]

\* no modal is open; no listener is waiting
NoModal == [open |-> FALSE, user_id |-> None, thread_id |-> None, message |-> None]
NoListener == [handler |-> None, thread_id |-> None, user_id |-> None, turn0 |-> 0]

Init ==
    /\ store = [t \in Threads |-> NotFound]
    /\ inv = [w \in Workers |-> IdleRun]
    /\ resp = [w \in Workers |-> NoResponse]
    /\ turns = 0
    /\ processed_events = <<>>
    /\ event_lock = None
    /\ req = [w \in Workers |-> IdleRequest]
    /\ issued = 0
    /\ authorized = {}
    /\ auth_log = <<>>
    /\ posted = <<>>
    /\ modal = NoModal
    /\ lst = NoListener
    /\ agents = [m \in Models |-> NoAgent]
    /\ created = [m \in Models |-> 0]
    /\ memory = [m \in Models |-> [k \in Serials |-> {}]]
    /\ user_model = DefaultModel
    /\ call = [w \in Workers |-> NoCall]
    /\ loop = NoTurn
    /\ coral = [pc |-> "input", loop_iteration |-> 0, user_input |-> 0,
                response |-> 0, chat_history |-> <<>>]

\* a request is handled by the first idle worker of the pool
FirstIdle(w) ==
    \A v \in Workers : WorkerOrder[v] < WorkerOrder[w] => inv[v].pc # "idle"

\* a thread that has no checkpoint yet is a new conversation: new
\* conversations take the thread ids in order
ThreadOrder == [t \in Threads |-> IF t = "t1" THEN 1 ELSE 2]
FirstUnused(t) ==
    \A s \in Threads : ThreadOrder[s] < ThreadOrder[t] => store[s].exists

\* invoke_agent(resume=False) up to the first superstep: agent.invoke applies
\* the built state to the thread's checkpoint and schedules agent
InvokeFresh(w, t, user_id, prompt, context) ==
    LET ck == get_tuple(store, t)
        input == build_state("system", prompt, context)
        ch == Channels(ck.ch.messages \o input, ck.ch.auth_message, ck.ch.resume_input)
    IN /\ inv[w].pc = "idle"
       /\ FirstIdle(w)
       /\ FirstUnused(t)
       /\ turns < MaxTurns
       /\ turns' = turns + 1
       /\ Len(ck.ch.messages) + Len(input) + 1 <= MaxMsgs
       /\ store' = put(store, t,
                        Checkpoint(TRUE, ck.id + 1, ch, {"agent"}, NoPendingWrites))
       /\ inv' = [inv EXCEPT ![w] =
                        [pc |-> "running", thread |-> t, user_id |-> user_id,
                         resume |-> FALSE, ch |-> ch, next |-> {"agent"},
                         base |-> ck.id, ckpt_id |-> ck.id + 1,
                         start_len |-> Len(ch.messages),
                         pending_writes |-> NoPendingWrites,
                         ran |-> <<>>, visited |-> <<>>]]
       /\ resp' = [resp EXCEPT ![w] = NoResponse]
       /\ UNCHANGED <<dedup_vars, other_vars>>

\* a resume that trusts the caller: the state is rebuilt from the prompt and
\* history of the request, as a fresh turn does
ResumeRun_FromCaller(ck, t, user_id, prompt, context) ==
    [pc |-> "running", thread |-> t, user_id |-> user_id, resume |-> TRUE,
     ch |-> Channels(ck.ch.messages \o build_state("system", prompt, context),
                     ck.ch.auth_message, "yes"),
     next |-> ck.next \cup {"tools"},
     base |-> ck.id, ckpt_id |-> ck.id, start_len |-> Len(ck.ch.messages),
     pending_writes |-> ck.pending_writes,
     ran |-> <<>>, visited |-> <<>>]

\* the run a resume Command starts from a checkpoint: update resume_input,
\* goto tools, and re-run whatever the checkpoint had scheduled
ResumeRun(ck, t, user_id, prompt, context) ==
    [pc |-> "running", thread |-> t, user_id |-> user_id, resume |-> TRUE,
     ch |-> Channels(ck.ch.messages, ck.ch.auth_message, "yes"),
     next |-> ck.next \cup {"tools"},
     base |-> ck.id, ckpt_id |-> ck.id, start_len |-> Len(ck.ch.messages),
     pending_writes |-> ck.pending_writes,
     ran |-> <<>>, visited |-> <<>>]

\* invoke_agent(resume=True) up to the first superstep
InvokeResume(w, t, user_id, prompt, context) ==
    LET ck == get_tuple(store, t) IN
    /\ inv[w].pc = "idle"
    /\ FirstIdle(w)
    /\ turns < MaxTurns
    /\ turns' = turns + 1
    /\ ck.exists
    /\ Len(ck.ch.messages) + 1 <= MaxMsgs
    /\ inv' = [inv EXCEPT ![w] = ResumeRun(ck, t, user_id, prompt, context)]
    /\ resp' = [resp EXCEPT ![w] = NoResponse]
    /\ UNCHANGED <<store, dedup_vars, other_vars>>

EmptyResult == ReturnState({})

\* result of node n of a superstep
RunNode(n, i, out, outcome, code_challenge) ==
    CASE n = "agent" -> call_agent(i.ch, out.calls, out.fail)
      [] n = "check_auth" -> check_auth(i.ch, i.user_id, code_challenge)
      [] n = "auth_interrupt" -> auth_interrupt(i.ch)
      [] n = "tools" ->
            IF i.pending_writes.saved
            THEN NodeResult("ok", i.pending_writes.msgs, FALSE, NoAuthMessage,
                            FALSE, None, <<>>, {"agent"})
            ELSE tool_node(i.ch, outcome)

\* the tools task of this superstep really calls tools
ToolsExecutes(i) ==
    /\ "tools" \in i.next
    /\ ~i.pending_writes.saved
    /\ Len(i.ch.messages) > 0
    /\ Last(i.ch.messages).role = "assistant"
    /\ Len(Last(i.ch.messages).tool_calls) > 0

\* the check_auth task of this superstep asks for a Google URL
AsksGoogle(i) ==
    /\ "check_auth" \in i.next
    /\ Len(i.ch.messages) > 0
    /\ \E k \in 1..Len(Last(i.ch.messages).tool_calls) :
          Last(i.ch.messages).tool_calls[k].name = "google"

\* writes of a superstep are applied in task-name order
StepMessages(i, R) ==
    (IF "agent" \in i.next THEN R["agent"].msgs ELSE <<>>)
        \o (IF "tools" \in i.next THEN R["tools"].msgs ELSE <<>>)

StepAuth(i, R) ==
    IF "auth_interrupt" \in i.next /\ R["auth_interrupt"].set_auth
    THEN R["auth_interrupt"].auth
    ELSE IF "check_auth" \in i.next /\ R["check_auth"].set_auth
         THEN R["check_auth"].auth
         ELSE i.ch.auth_message

StepResume(i, R) ==
    IF "auth_interrupt" \in i.next /\ R["auth_interrupt"].set_resume
    THEN R["auth_interrupt"].resume
    ELSE i.ch.resume_input

\* one Pregel superstep of the run of worker w
Superstep(w) ==
    LET i == inv[w]
        t == i.thread
    IN /\ i.pc = "running"
       /\ \E out \in (IF "agent" \in i.next THEN ModelOutputs(i.ch.messages)
                      ELSE {[calls |-> <<>>, fail |-> FALSE]}),
             outcome \in (IF ToolsExecutes(i) THEN {"ok", "error"} ELSE {"ok"}),
             race \in BOOLEAN,
             code_challenge \in (IF AsksGoogle(i) THEN CodeChallenges ELSE {NoChallenge}) :
          LET R == [n \in Nodes |-> IF n \in i.next
                                    THEN RunNode(n, i, out, outcome, code_challenge)
                                    ELSE EmptyResult]
              failed == \E n \in i.next : R[n].status = "raise"
              interrupted == \E n \in i.next : R[n].status = "interrupt"
              tools_done == ToolsExecutes(i) /\ R["tools"].status = "ok"
              ch == Channels(i.ch.messages \o StepMessages(i, R),
                             StepAuth(i, R), StepResume(i, R))
              next == UNION {R[n].goto : n \in i.next}
              newid == store[t].id + 1
          IN IF failed \/ interrupted
             THEN \* no checkpoint is written; a tools task that finished
                  \* before the step was abandoned keeps its writes
                  /\ race => tools_done
                  /\ inv' = [inv EXCEPT ![w].pc =
                                IF failed THEN "raised" ELSE "interrupted",
                             ![w].ran = IF race THEN i.ran \o R["tools"].ran ELSE i.ran,
                             ![w].visited = Append(i.visited, i.next)]
                  /\ store' = IF race /\ store[t].id = i.ckpt_id
                              THEN [store EXCEPT ![t].pending_writes =
                                        [saved |-> TRUE, msgs |-> R["tools"].msgs]]
                              ELSE store
                  /\ UNCHANGED <<resp, turns, dedup_vars, other_vars>>
             ELSE /\ ~race
                  /\ inv' = [inv EXCEPT ![w].pc = IF next = {} THEN "ended" ELSE "running",
                             ![w].ch = ch,
                             ![w].next = next,
                             ![w].ckpt_id = newid,
                             ![w].pending_writes = NoPendingWrites,
                             ![w].ran = IF "tools" \in i.next
                                        THEN i.ran \o R["tools"].ran ELSE i.ran,
                             ![w].visited = Append(i.visited, i.next)]
                  /\ store' = put(store, t,
                                  Checkpoint(TRUE, newid, ch, next, NoPendingWrites))
                  /\ UNCHANGED <<resp, turns, dedup_vars, other_vars>>

\* invoke_agent's except / else: the AgentResponse built from the run
ResponseFor(i) ==
    IF i.pc = "raised"
    THEN AgentResponse("error", "An unexpected error occurred", NoAuthMessage, i.thread)
    ELSE AgentResponse("ok", Last(i.ch.messages).content, i.ch.auth_message, i.thread)

\* respond_in_assistant_thread: the turn is reported suspended when the
\* response carries an auth_message
Suspended(r) == TruthyMsg(r.auth_message)

\* invoke_agent hands the AgentResponse to the caller
Return(w) ==
    LET i == inv[w] IN
    /\ i.pc \in {"ended", "raised", "interrupted"}
    /\ resp' = [resp EXCEPT ![w] = ResponseFor(i)]
    /\ inv' = [inv EXCEPT ![w] = IdleRun]
    /\ UNCHANGED <<store, turns, dedup_vars, other_vars>>

---------------------------------------------------------------------------
(* deduplicate_events, one action per step of a request worker *)

\* a guard that looks at the event id alone
should_deduplicate_any_type(event_type, event_id) == event_id # NoEventId

\* line 42: event_type in ["message", "app_mention", "assistant"] and event_id
should_deduplicate(event_type, event_id) ==
    event_type \in dedup_event_types /\ event_id # NoEventId

\* a request arrives: lines 39-42.  A new message event gets the next id and
\* arrives while no other request is in flight; any other delivery repeats an
\* id or carries none.
Receive(w, event_id, event_type) ==
    /\ req[w].pc = "idle"
    /\ \A v \in Workers : WorkerOrder[v] < WorkerOrder[w] => req[v].pc # "idle"
    /\ IF event_id = issued + 1
       THEN /\ issued < MaxEvents
            /\ event_type \in dedup_event_types
            /\ \A v \in Workers : req[v].pc = "idle"
            /\ issued' = issued + 1
       ELSE /\ event_id \in RetryIds \cup {NoEventId}
            /\ UNCHANGED issued
    /\ req' = [req EXCEPT ![w] =
                  [pc |-> IF should_deduplicate(event_type, event_id)
                          THEN "acquire" ELSE "next",
                   event_id |-> event_id, event_type |-> event_type]]
    /\ UNCHANGED <<processed_events, event_lock, engine_vars, other_vars>>

\* a guard that enters the critical section without waiting for the lock
acquire_lock_nowait(w) ==
    /\ req[w].pc = "acquire"
    /\ event_lock' = w
    /\ req' = [req EXCEPT ![w].pc = "test"]
    /\ UNCHANGED <<processed_events, issued, engine_vars, other_vars>>

\* with event_lock: blocks until the lock is free
acquire_lock(w) ==
    /\ req[w].pc = "acquire"
    /\ event_lock = None
    /\ event_lock' = w
    /\ req' = [req EXCEPT ![w].pc = "test"]
    /\ UNCHANGED <<processed_events, issued, engine_vars, other_vars>>

\* line 44: if event_id in processed_events
test_processed(w) ==
    /\ req[w].pc = "test"
    /\ req' = [req EXCEPT ![w].pc =
                  IF InRecord(req[w].event_id) THEN "duplicate" ELSE "record"]
    /\ UNCHANGED <<processed_events, event_lock, issued, engine_vars, other_vars>>

\* lines 45-46: return BoltResponse(status=200) from inside the with block,
\* which releases the lock; next() is not called
return_duplicate(w) ==
    /\ req[w].pc = "duplicate"
    /\ event_lock' = IF event_lock = w THEN None ELSE event_lock
    /\ req' = [req EXCEPT ![w] = IdleRequest]
    /\ UNCHANGED <<processed_events, issued, engine_vars, other_vars>>

\* line 48: processed_events.append(event_id), then the lock is released
record_event(w) ==
    /\ req[w].pc = "record"
    /\ processed_events' = deque_append(processed_events, req[w].event_id)
    /\ event_lock' = IF event_lock = w THEN None ELSE event_lock
    /\ req' = [req EXCEPT ![w].pc = "next"]
    /\ UNCHANGED <<issued, engine_vars, other_vars>>

\* a listener whose failure takes the event's id out of the record
call_next_forget(w, outcome) ==
    /\ req[w].pc = "next"
    /\ req' = [req EXCEPT ![w] = IF outcome = "ok" THEN IdleRequest
                                 ELSE [req[w] EXCEPT !.pc = "failed"]]
    /\ processed_events' =
          IF outcome = "ok" THEN processed_events
          ELSE SelectSeq(processed_events, LAMBDA x : x # req[w].event_id)
    /\ UNCHANGED <<event_lock, issued, engine_vars, other_vars>>

\* line 50: return next(): the request goes on to the listener, which
\* returns, or in whose try block an exception is raised
call_next(w, outcome) ==
    /\ req[w].pc = "next"
    /\ req' = [req EXCEPT ![w] = IF outcome = "ok" THEN IdleRequest
                                 ELSE [req[w] EXCEPT !.pc = "failed"]]
    /\ UNCHANGED <<processed_events, event_lock, issued, engine_vars, other_vars>>

\* the listener's except block: the failure is logged and reported in the
\* thread, and next() returns
listener_except(w) ==
    /\ req[w].pc = "failed"
    /\ req' = [req EXCEPT ![w] = IdleRequest]
    /\ UNCHANGED <<processed_events, event_lock, issued, engine_vars, other_vars>>

NextDedup ==
    \/ \E w \in Workers, e \in RetryIds \cup {NoEventId, issued + 1}, ty \in EventTypes :
          Receive(w, e, ty)
    \/ \E w \in Workers : acquire_lock(w)
    \/ \E w \in Workers : test_processed(w)
    \/ \E w \in Workers : return_duplicate(w)
    \/ \E w \in Workers : record_event(w)
    \/ \E w \in Workers, outcome \in {"ok", "failed"} : call_next(w, outcome)
    \/ \E w \in Workers : listener_except(w)

SpecDedup == Init /\ [][NextDedup]_vars

---------------------------------------------------------------------------
(* Requests handled one at a time (Next) and by two workers (NextConc) *)

\* a request reaches invoke_agent on worker w
Invoke(w) ==
    \/ \E t \in Threads, u \in UserIds, p \in FreshPrompts, c \in FreshContexts :
          InvokeFresh(w, t, u, p, c)
    \/ \E t \in Threads, u \in UserIds, p \in Prompts, c \in Contexts :
          InvokeResume(w, t, u, p, c)

\* the actions of the engine run by worker w
Engine(w) ==
    \/ Invoke(w)
    \/ Superstep(w)
    \/ Return(w)

Next == Engine("w1")

Spec == Init /\ [][Next]_vars

NextConc ==
    \E w \in Workers :
        \/ turns < MaxConcTurns /\ Invoke(w)
        \/ Superstep(w)
        \/ Return(w)

SpecConc == Init /\ [][NextConc]_vars

---------------------------------------------------------------------------
(* Properties of the authorization gate *)

\* the runs that have left the graph and have not returned to the caller yet
Finished(i) == i.pc \in {"ended", "raised", "interrupted"}

\* message m is an assistant message calling a tool that requires auth and
\* whose authorization for user_id is not completed
CallsPendingAuthTool(m, user_id) ==
    /\ m.role = "assistant"
    /\ \E k \in 1..Len(m.tool_calls) :
          /\ m.tool_calls[k].name \in auth_required_tools
          /\ \A c \in CodeChallenges :
                authorize(m.tool_calls[k].name, user_id, c).status # "completed"

\* some tool call of message m has been dispatched by run i
Executed(i, m) ==
    \E k \in 1..Len(m.tool_calls), j \in 1..Len(i.ran) : i.ran[j].id = m.tool_calls[k].id

\* auth_message carries the authorization URL of every pending tool of m
CarriesUrls(auth_message, m, user_id) ==
    \A k \in 1..Len(m.tool_calls) :
        m.tool_calls[k].name \in auth_required_tools =>
            \E j \in 1..Len(auth_message.items) :
                \E c \in CodeChallenges :
                    auth_message.items[j].url = get_auth_url(m.tool_calls[k].name, user_id, c)

\* the model's first response of the turn run i is executing
FirstResponse(i) == i.ch.messages[i.start_len + 1]
HasFirstResponse(i) ==
    /\ i.pc # "idle"
    /\ ~i.resume
    /\ Len(i.ch.messages) > i.start_len
    /\ FirstResponse(i).role = "assistant"

\* C1: whenever the model's response calls a tool that requires auth and is
\* not authorized for the user, the turn suspends at auth_interrupt: no tool
\* call of that response is executed, the checkpoint stays saved, and the
\* caller gets a suspended response whose message carries the tool's URL.
C1_PendingAuthSuspends ==
    \A w \in Workers :
        LET i == inv[w] IN
        (HasFirstResponse(i) /\ Truthy(i.user_id)
            /\ CallsPendingAuthTool(FirstResponse(i), i.user_id)) =>
            /\ ~Executed(i, FirstResponse(i))
            /\ Finished(i) =>
                  /\ i.pc = "interrupted"
                  /\ Last(i.visited) = {"auth_interrupt"}
                  /\ store[i.thread].exists
                  /\ Suspended(ResponseFor(i))
                  /\ CarriesUrls(ResponseFor(i).auth_message, FirstResponse(i), i.user_id)

\* a checkpoint left by a turn that stopped at the authorization gate: the
\* conversation ends with an assistant message whose pending auth tool calls
\* have no results yet
AwaitingAuth(messages, user_id) ==
    /\ Len(messages) > 0
    /\ CallsPendingAuthTool(Last(messages), user_id)

\* run i resumed such a checkpoint
ResumedAwaitingAuth(i) ==
    /\ i.pc # "idle"
    /\ i.resume
    /\ Truthy(i.user_id)
    /\ AwaitingAuth(SubSeq(i.ch.messages, 1, i.start_len), i.user_id)

\* C2: a resume of a thread stopped at the authorization gate executes the
\* pending tool calls, returns to agent and ends with a final assistant
\* message; both auth fields are cleared and the caller is told the turn is
\* not suspended.
C2_ResumeCompletes ==
    \A w \in Workers :
        LET i == inv[w] IN
        (ResumedAwaitingAuth(i) /\ Finished(i)) =>
            /\ i.pc = "ended"
            /\ Executed(i, i.ch.messages[i.start_len])
            /\ Last(i.ch.messages).role = "assistant"
            /\ Len(Last(i.ch.messages).tool_calls) = 0
            /\ i.ch.auth_message = NoAuthMessage
            /\ i.ch.resume_input = None
            /\ ResponseFor(i).kind = "ok"
            /\ ~Suspended(ResponseFor(i))

\* C3: in a resume of a thread stopped at the authorization gate, the step
\* that sees the resume signal is auth_interrupt; it clears auth_message and
\* resume_input in that one step, and tools is what runs next.
C3_ResumeStepClears ==
    \A w \in Workers :
        LET i == inv[w] IN
        (ResumedAwaitingAuth(i) /\ Len(i.visited) >= 1) =>
            /\ "auth_interrupt" \in i.visited[1]
            /\ i.pc \in {"running", "ended"}
            /\ i.ch.auth_message = NoAuthMessage
            /\ i.ch.resume_input = None
            /\ Executed(i, i.ch.messages[i.start_len])

\* C4: a resume is built from the last checkpoint saved for the thread, never
\* from the prompt and history of the request: the run a resume starts is the
\* run any other prompt and history would have started from that checkpoint,
\* and it starts with the checkpoint's conversation and scheduled nodes.
C4_ResumeFromCheckpoint ==
    \A w \in Workers :
        LET i == inv[w]
            ck == store[i.thread]
        IN (i.resume /\ i.pc = "running" /\ i.visited = <<>> /\ ck.id = i.base) =>
              /\ \A p \in Prompts, c \in Contexts :
                    i = ResumeRun(ck, i.thread, i.user_id, p, c)
              /\ i.ch.messages = ck.ch.messages
              /\ i.ch.auth_message = ck.ch.auth_message
              /\ i.next = ck.next \cup {"tools"}

\* a resume has run the tool calls its checkpoint was holding
C4_Witness ==
    \E w \in Workers :
        /\ inv[w].resume
        /\ Len(inv[w].visited) >= 1
        /\ Len(inv[w].ran) > 0
        /\ inv[w].start_len >= 3

\* C5: two turns on the same thread never both advance from the same
\* checkpoint: a run that is still executing always holds the thread's
\* latest checkpoint, so no saved update is overwritten.
C5_SingleWriter ==
    \A w \in Workers :
        inv[w].pc = "running" => store[inv[w].thread].id = inv[w].ckpt_id

---------------------------------------------------------------------------
(* Properties of the routing after agent *)

\* message m is an assistant message whose tool calls all name tools that
\* need no authorization
OnlyOpenTools(m) ==
    /\ m.role = "assistant"
    /\ Len(m.tool_calls) > 0
    /\ \A k \in 1..Len(m.tool_calls) : m.tool_calls[k].name \notin auth_required_tools

\* the agent step has just appended the response the conversation ends with
AgentAnswered(i) ==
    /\ i.pc \in {"running", "ended"}
    /\ Len(i.visited) >= 1
    /\ Last(i.visited) = {"agent"}

GateNodes == {"check_auth", "auth_interrupt"}

\* C9: in a turn whose model response carries no tool calls the engine goes
\* from agent straight to the end: tools, check_auth and auth_interrupt are
\* not visited, the caller gets the response's text and is told the turn is
\* not suspended.
C9_NoToolCallsEnds ==
    \A w \in Workers :
        LET i == inv[w] IN
        /\ (HasFirstResponse(i) /\ Len(FirstResponse(i).tool_calls) = 0) =>
              /\ i.visited = <<{"agent"}>>
              /\ i.ran = <<>>
        /\ (AgentAnswered(i) /\ Len(Last(i.ch.messages).tool_calls) = 0) =>
              /\ i.pc = "ended"
              /\ i.next = {}
              /\ ResponseFor(i).kind = "ok"
              /\ ResponseFor(i).content = Last(i.ch.messages).content
              /\ ~Suspended(ResponseFor(i))

\* a turn has ended on a first response without tool calls
C9_Witness ==
    \E w \in Workers :
        /\ HasFirstResponse(inv[w])
        /\ Len(FirstResponse(inv[w]).tool_calls) = 0
        /\ inv[w].pc = "ended"
        /\ inv[w].start_len > 2

\* C10: when every tool call of the model's response names a tool that needs
\* no authorization, the step after agent is tools, and a turn whose
\* responses are all of that kind never visits check_auth or auth_interrupt.
C10_OpenToolsSkipGate ==
    \A w \in Workers :
        LET i == inv[w] IN
        /\ (AgentAnswered(i) /\ OnlyOpenTools(Last(i.ch.messages))) => i.next = {"tools"}
        /\ (HasFirstResponse(i)
               /\ \A k \in (i.start_len + 1)..Len(i.ch.messages) :
                     Len(i.ch.messages[k].tool_calls) > 0 =>
                         OnlyOpenTools(i.ch.messages[k])) =>
              \A j \in 1..Len(i.visited) : i.visited[j] \cap GateNodes = {}

\* a turn has run the open tools its first response called
C10_Witness ==
    \E w \in Workers :
        /\ HasFirstResponse(inv[w])
        /\ OnlyOpenTools(FirstResponse(inv[w]))
        /\ Len(inv[w].visited) >= 2
        /\ inv[w].visited[2] = {"tools"}
        /\ Len(inv[w].ran) = Len(FirstResponse(inv[w]).tool_calls)

---------------------------------------------------------------------------
(* Properties of the event dedup guard *)

Held(event_id) ==
    \E k \in 1..Len(processed_events) : processed_events[k] = event_id

\* the request of worker w is inside the with event_lock block
InCritical(w) == req[w].pc \in {"test", "duplicate", "record"}

\* the guard let the request of worker w through as a new event
AcceptedNew(w) ==
    /\ req[w].pc \in {"record", "next"}
    /\ req[w].event_type \in dedup_event_types
    /\ req[w].event_id # NoEventId

\* C6: the membership test and the insertion are one atomic step with
\* respect to other deliveries: at most one worker is between the test and
\* the insertion, and of the deliveries of one event id in flight at most
\* one is let through.
C6_AtomicCheckAndInsert ==
    \A w \in Workers, v \in Workers :
        w # v =>
            /\ ~(InCritical(w) /\ InCritical(v))
            /\ InCritical(w) => event_lock = w
            /\ ~(AcceptedNew(w) /\ AcceptedNew(v) /\ req[w].event_id = req[v].event_id)

\* two deliveries of one event id were in flight together: one was let
\* through, the other is answered as a duplicate
C6_Witness ==
    \E w \in Workers, v \in Workers :
        /\ w # v
        /\ req[w].pc = "next" /\ req[w].event_type \in dedup_event_types
        /\ req[v].pc = "duplicate"
        /\ req[w].event_id = req[v].event_id
        /\ req[v].event_id # NoEventId

\* C7: while an event id is among the recorded ids, every further delivery
\* of it is a duplicate: it is answered without reaching the listeners and
\* leaves the record unchanged; only a delivery whose id is not recorded is
\* recorded and passed on, so the record never holds an id twice.
C7_DuplicateDropped ==
    [][\A w \in Workers :
          /\ (req[w].pc = "test" /\ req'[w].pc # "test") =>
                /\ req'[w].pc = IF Held(req[w].event_id) THEN "duplicate" ELSE "record"
                /\ processed_events' = processed_events
          /\ (req[w].pc = "duplicate" /\ req'[w] # req[w]) =>
                /\ req'[w].pc = "idle"
                /\ processed_events' = processed_events
          /\ (req[w].pc = "record" /\ req'[w] # req[w]) =>
                /\ ~Held(req[w].event_id)
                /\ req'[w].pc = "next"
                /\ Held(req[w].event_id)']_vars

\* the first event id is redelivered while the record holds its full 1000
\* ids, the first id among them, and is answered as a duplicate
C7_Witness ==
    \E w \in Workers :
        /\ req[w].pc = "duplicate"
        /\ req[w].event_id = 1
        /\ Len(processed_events) = maxlen
        /\ processed_events[1] = 1

\* C8: the record never holds more than 1000 ids; an insertion into a full
\* record drops exactly its oldest id, so an id leaves the record once 1000
\* further ids have been recorded after it.
C8_BoundedFifo ==
    [][/\ Len(processed_events) <= maxlen
       /\ Len(processed_events') <= maxlen
       /\ processed_events' # processed_events =>
             \E w \in Workers :
                /\ req[w].pc = "record"
                /\ processed_events' =
                      (IF Len(processed_events) = maxlen THEN Tail(processed_events)
                       ELSE processed_events) \o <<req[w].event_id>>]_vars

\* the first event id was dropped by the 1000th id recorded after it, and
\* its redelivery has been recorded as a new event
C8_Witness ==
    /\ Len(processed_events) = maxlen
    /\ Last(processed_events) = 1
    /\ processed_events[1] = 3
    /\ \A k \in 1..(maxlen - 1) : processed_events[k] # 1

---------------------------------------------------------------------------
(* More properties of the routing and of the tool node *)

\* message m is an assistant message with a tool call that requires auth
CallsAuthTool(m) ==
    /\ m.role = "assistant"
    /\ \E k \in 1..Len(m.tool_calls) : m.tool_calls[k].name \in auth_required_tools

\* C11: when any tool call of the model's response names a tool that requires
\* authorization, the step after agent is check_auth and not tools, whatever
\* the other tool calls of the response are.
C11_AuthToolGoesToGate ==
    \A w \in Workers :
        LET i == inv[w] IN
        /\ (AgentAnswered(i) /\ CallsAuthTool(Last(i.ch.messages))) =>
              i.next = {"check_auth"}
        /\ (HasFirstResponse(i) /\ CallsAuthTool(FirstResponse(i))
               /\ Len(i.visited) >= 2) =>
              i.visited[2] = {"check_auth"}

\* a response that calls an open tool first and a tool that requires auth
\* second has been routed to check_auth
C11_Witness ==
    \E w \in Workers :
        LET i == inv[w] IN
        /\ HasFirstResponse(i)
        /\ Len(FirstResponse(i).tool_calls) = 2
        /\ FirstResponse(i).tool_calls[1].name \notin auth_required_tools
        /\ FirstResponse(i).tool_calls[2].name \in auth_required_tools
        /\ Len(i.visited) >= 2
        /\ i.visited[2] = {"check_auth"}

\* the tools step of run i has just run the calls of the assistant message
\* at position k of the conversation
ToolsRan(i, k) ==
    /\ Len(i.visited) >= 2
    /\ Last(i.visited) = {"tools"}
    /\ i.visited[Len(i.visited) - 1] \in {{"agent"}, {"check_auth"}}
    /\ k >= 1 /\ k <= Len(i.ch.messages)
    /\ i.ch.messages[k].role = "assistant"
    /\ Len(i.ch.messages[k].tool_calls) > 0
    /\ \A j \in (k + 1)..Len(i.ch.messages) : i.ch.messages[j].role = "tool"

\* C15: a failure while executing tool calls does not abort the turn and is
\* not reported to the caller as an error: the step ends with one
\* tool-result message per tool call, the failure described in them, and
\* the engine goes on to agent.
C15_ToolErrorRecovered ==
    \A w \in Workers :
        LET i == inv[w] IN
        (i.pc # "idle" /\ Len(i.visited) >= 2 /\ Last(i.visited) = {"tools"}
            /\ i.visited[Len(i.visited) - 1] \in {{"agent"}, {"check_auth"}}) =>
            /\ i.pc = "running"
            /\ i.next = {"agent"}
            /\ \E k \in 1..Len(i.ch.messages) :
                  /\ ToolsRan(i, k)
                  /\ Len(i.ch.messages) = k + Len(i.ch.messages[k].tool_calls)
                  /\ \A c \in 1..Len(i.ch.messages[k].tool_calls) :
                        /\ i.ch.messages[k + c].tool_call_id = i.ch.messages[k].tool_calls[c].id
                        /\ i.ch.messages[k + c].content \in {"result", "Error"}

\* a call of a bound tool failed and its result message carries the error,
\* with the turn still running
C15_Witness ==
    \E w \in Workers :
        LET i == inv[w] IN
        /\ i.pc = "running"
        /\ \E k \in 1..Len(i.ch.messages) :
              /\ ToolsRan(i, k)
              /\ i.ch.messages[k].tool_calls[1].name \in bound_tools
              /\ i.ch.messages[k + 1].content = "Error"


-----------------------------------------------------------------------------
(* The checkpoint store *)

\* the checkpoint a run of thread t starts from
Loads(i, ck) ==
    /\ i.base = ck.id
    /\ Len(i.ch.messages) >= Len(ck.ch.messages)
    /\ SubSeq(i.ch.messages, 1, Len(ck.ch.messages)) = ck.ch.messages
    /\ i.ch.auth_message = ck.ch.auth_message
    /\ (i.resume => /\ ck.exists
                    /\ i.ch.messages = ck.ch.messages
                    /\ i.next = ck.next \cup {"tools"})

-----------------------------------------------------------------------------
(* Failure of the model call *)

\* the run of i stopped because the model call of its last step raised
ModelFailed(i) ==
    /\ i.pc = "raised"
    /\ Len(i.visited) > 0
    /\ Last(i.visited) = {"agent"}

\* C16: when the model invocation of a turn fails, the checkpoint stored for
\* the thread is exactly the one that was there before the attempt began:
\* nothing of the attempt, its input messages included, is committed
C16_FailedTurnCommitsNothing ==
    \A w \in Workers :
        ModelFailed(inv[w]) =>
            /\ store[inv[w].thread].id = inv[w].base
            /\ Len(store[inv[w].thread].ch.messages) <= inv[w].start_len
            /\ (~inv[w].resume =>
                    Len(store[inv[w].thread].ch.messages) < inv[w].start_len)


-----------------------------------------------------------------------------
(* Resume without a pending authorization *)

\* run i is a finished resume of a checkpoint that held no auth_message
ResumedWithoutAuth(i) ==
    /\ i.resume
    /\ Finished(i)
    /\ ~TruthyMsg(store[i.thread].ch.auth_message)
    /\ ~TruthyMsg(i.ch.auth_message)

\* run i dispatched a tool call that had a tool message when the run started
ExecutedAgain(i) ==
    \E j \in 1..Len(i.ran), k \in 1..i.start_len :
        /\ i.ch.messages[k].role = "tool"
        /\ i.ch.messages[k].tool_call_id = i.ran[j].id

\* C18: a resume on a thread whose checkpoint holds no pending auth message
\* does not fail, executes no tool call that already has a tool message, and
\* leaves the messages of the conversation as they were
C18_ResumeWithoutAuthIsNoOp ==
    \A w \in Workers :
        ResumedWithoutAuth(inv[w]) =>
            /\ inv[w].pc # "raised"
            /\ ~ExecutedAgain(inv[w])
            /\ Len(inv[w].ch.messages) = inv[w].start_len
            /\ store[inv[w].thread].ch.messages = inv[w].ch.messages


-----------------------------------------------------------------------------
(* auth_message and resume_input *)

\* conversation state ch has both a pending auth message and a resume signal
BothSet(ch) == TruthyMsg(ch.auth_message) /\ ch.resume_input # None

-----------------------------------------------------------------------------
(* The tool manager on its own: calls of authorize, and the user completing *)
(* an OAuth flow at the provider                                            *)

MaxAuthCalls == 2

\* tool names and user ids authorize is called with
AuthTools == {"github", "google", "search"}
AuthUsers == {"u1", "u2"}

\* one call of manager.authorize(tool_name, user_id), as check_auth makes it;
\* the call assigns nothing: neither the registry nor any conversation
CallAuthorize(tool_name, user_id) ==
    /\ Len(auth_log) < MaxAuthCalls
    /\ \E code_challenge \in (IF tool_name = "google" THEN CodeChallenges
                              ELSE {NoChallenge}) :
          auth_log' = Append(auth_log,
                        [tool_name |-> tool_name, user_id |-> user_id,
                         response |-> authorize(tool_name, user_id, code_challenge),
                         completed |-> <<tool_name, user_id>> \in authorized])
    /\ UNCHANGED <<authorized, slack_vars, engine_vars, dedup_vars, cache_vars, loop_vars, coral_vars>>

\* the user finishes the provider's OAuth flow for tool_name: the provider
\* redirects to the configured redirect URI
CompleteAuthorization(tool_name, user_id) ==
    /\ requires_auth(tool_name)
    /\ <<tool_name, user_id>> \notin authorized
    /\ authorized' = authorized \cup {<<tool_name, user_id>>}
    /\ UNCHANGED <<auth_log, slack_vars, engine_vars, dedup_vars, cache_vars, loop_vars, coral_vars>>

NextManager ==
    \/ \E tool_name \in AuthTools, user_id \in AuthUsers : CallAuthorize(tool_name, user_id)
    \/ \E tool_name \in AuthTools, user_id \in AuthUsers :
          CompleteAuthorization(tool_name, user_id)

SpecManager == Init /\ [][NextManager]_vars

\* C12: once the external authorization of (tool, user) has completed, every
\* later call of authorize for that pair returns status completed
C12_CompletedStaysCompleted ==
    \A k \in 1..Len(auth_log) :
        auth_log[k].completed => auth_log[k].response.status = "completed"

-----------------------------------------------------------------------------
(* The Slack listeners around invoke_agent.  A conversation thread of Slack *)
(* is identified with its thread_id, f"{channel_id}:{thread_ts}".  A        *)
(* listener that calls invoke_agent is waiting in lst while the graph runs. *)

MaxSlackTurns == 2
MaxPosted == 4

\* a message posted to the thread thread_id.  kind is one of
\*   "content"      the content of the AgentResponse
\*   "apology"      invoke_agent's 'An unexpected error occurred ...'
\*   "warning"      a fixed ':warning: ...' text of a listener
\*   "loading"      'Resuming after authorization...'
\*   "auth_button"  the auth message with the Authorization Complete button
\*   "exception"    a text that embeds str(e) of the exception caught
Post(kind, thread_id) == [kind |-> kind, thread_id |-> thread_id]

\* values of Authorization Complete buttons Slack can deliver a click for
ButtonValues == [user_id : {"u1"}, thread_id : Threads, message : FreshPrompts]

Waiting(handler, thread_id, user_id) ==
    [handler |-> handler, thread_id |-> thread_id, user_id |-> user_id, turn0 |-> turns]

\* respond_in_assistant_thread up to the call of invoke_agent: thread_id is
\* computed from the event's channel and thread; a Slack call that raises
\* ends in the except branch
respond_in_assistant_thread(t, user_id) ==
    /\ lst.handler = None
    /\ turns < MaxSlackTurns
    /\ Len(posted) < MaxPosted
    /\ FirstUnused(t)
    /\ Len(store[t].ch.messages) + 3 <= MaxMsgs
    /\ \E api_ok \in BOOLEAN :
          IF api_ok
          THEN /\ lst' = Waiting("respond_in_assistant_thread", t, user_id)
               /\ UNCHANGED posted
          ELSE /\ posted' = Append(posted, Post("warning", t))
               /\ UNCHANGED lst
    /\ UNCHANGED <<modal, manager_vars, engine_vars, dedup_vars, cache_vars, loop_vars, coral_vars>>

\* respond_in_assistant_thread calls invoke_agent(thread_id=thread_id)
respond_invoke(w) ==
    /\ lst.handler = "respond_in_assistant_thread"
    /\ turns = lst.turn0
    /\ \E p \in FreshPrompts, c \in FreshContexts :
          InvokeFresh(w, lst.thread_id, lst.user_id, p, c)

\* respond_in_assistant_thread after invoke_agent returned: the button with
\* response.thread_id in its value, or the content
respond_reply(w) ==
    /\ lst.handler = "respond_in_assistant_thread"
    /\ turns = lst.turn0 + 1
    /\ inv[w].pc = "idle"
    /\ posted' = Append(posted,
                    IF TruthyMsg(resp[w].auth_message)
                    THEN Post("auth_button", resp[w].thread_id)
                    ELSE IF resp[w].kind = "error"
                         THEN Post("apology", lst.thread_id)
                         ELSE Post("content", lst.thread_id))
    /\ lst' = NoListener
    /\ UNCHANGED <<modal, manager_vars, engine_vars, dedup_vars, cache_vars, loop_vars, coral_vars>>

\* handle_auth_complete_button: copies the button's value into the modal's
\* private_metadata; when views_open raises, the except branch posts str(e)
handle_auth_complete_button(value) ==
    /\ lst.handler = None
    /\ Len(posted) < MaxPosted
    /\ \E views_open_ok \in BOOLEAN :
          IF views_open_ok
          THEN /\ modal' = [open |-> TRUE, user_id |-> value.user_id,
                            thread_id |-> value.thread_id, message |-> value.message]
               /\ UNCHANGED posted
          ELSE /\ posted' = Append(posted, Post("exception", value.thread_id))
               /\ UNCHANGED modal
    /\ UNCHANGED <<lst, manager_vars, engine_vars, dedup_vars, cache_vars, loop_vars, coral_vars>>

\* handle_auth_complete up to the call of invoke_agent: reads the modal's
\* private_metadata, posts the loading message, fetches the replies; a Slack
\* call that raises ends in the except branch, which posts str(e)
handle_auth_complete ==
    /\ lst.handler = None
    /\ modal.open
    /\ turns < MaxSlackTurns
    /\ Len(posted) + 2 <= MaxPosted
    /\ store[modal.thread_id].exists
    /\ Len(store[modal.thread_id].ch.messages) + 1 <= MaxMsgs
    /\ modal' = NoModal
    /\ \E api \in {"ok", "post_raises", "replies_raises"} :
          CASE api = "ok" ->
                 /\ posted' = Append(posted, Post("loading", modal.thread_id))
                 /\ lst' = Waiting("handle_auth_complete", modal.thread_id, modal.user_id)
            [] api = "post_raises" ->
                 /\ posted' = Append(posted, Post("exception", modal.thread_id))
                 /\ UNCHANGED lst
            [] api = "replies_raises" ->
                 /\ posted' = posted \o <<Post("loading", modal.thread_id),
                                          Post("exception", modal.thread_id)>>
                 /\ UNCHANGED lst
    /\ UNCHANGED <<manager_vars, engine_vars, dedup_vars, cache_vars, loop_vars, coral_vars>>

\* handle_auth_complete calls invoke_agent(thread_id=thread_id, resume=True)
auth_complete_invoke(w) ==
    /\ lst.handler = "handle_auth_complete"
    /\ turns = lst.turn0
    /\ \E p \in FreshPrompts, c \in FreshContexts :
          InvokeResume(w, lst.thread_id, lst.user_id, p, c)

\* handle_auth_complete after invoke_agent returned: the content is posted
\* when it is not empty
auth_complete_reply(w) ==
    /\ lst.handler = "handle_auth_complete"
    /\ turns = lst.turn0 + 1
    /\ inv[w].pc = "idle"
    /\ posted' = IF Truthy(resp[w].content)
                 THEN Append(posted,
                        IF resp[w].kind = "error" THEN Post("apology", lst.thread_id)
                        ELSE Post("content", lst.thread_id))
                 ELSE posted
    /\ lst' = NoListener
    /\ UNCHANGED <<modal, manager_vars, engine_vars, dedup_vars, cache_vars, loop_vars, coral_vars>>

NextSlack ==
    \/ \E t \in Threads, user_id \in UserIds : respond_in_assistant_thread(t, user_id)
    \/ respond_invoke("w1")
    \/ respond_reply("w1")
    \/ \E value \in ButtonValues : handle_auth_complete_button(value)
    \/ handle_auth_complete
    \/ auth_complete_invoke("w1")
    \/ auth_complete_reply("w1")
    \/ Superstep("w1")
    \/ lst.handler # None /\ Return("w1")

SpecSlack == Init /\ [][NextSlack]_vars

\* C17: whatever goes wrong, the listeners post only the response content,
\* the generic apology, a fixed warning, the loading note or the auth
\* button: no posted message carries the text of an exception
C17_OnlyGenericErrorMessages ==
    \A k \in 1..Len(posted) :
        posted[k].kind \in {"content", "apology", "warning", "loading", "auth_button"}

-----------------------------------------------------------------------------
(* The gate, seen from the tools node *)

-----------------------------------------------------------------------------
(* What the caller is told about a suspension *)

-----------------------------------------------------------------------------
(* get_agent and the per-model cache of agents.  invoke_agent is followed   *)
(* from get_user_state to graph.invoke; of the graph run only its use of    *)
(* the agent's MemorySaver is kept: a fresh turn saves a checkpoint for its *)
(* thread, a resume looks the thread's checkpoint up.                       *)

\* set_user_settings: set_user_state(user_id, provider, model)
set_user_settings(model) ==
    /\ model # user_model
    /\ user_model' = model
    /\ UNCHANGED <<agents, created, memory, call, manager_vars, slack_vars,
                   engine_vars, dedup_vars, loop_vars, coral_vars>>

\* invoke_agent: user_settings = get_user_state(user_id), then
\* get_agent(user_settings["model"]) is entered
invoke_agent_enter(w, t, resume) ==
    /\ call[w].pc = "idle"
    /\ call' = [call EXCEPT ![w] = [pc |-> "check", model |-> user_model,
                                    agent |-> NoAgent, thread |-> t, resume |-> resume]]
    /\ UNCHANGED <<agents, created, memory, user_model, manager_vars, slack_vars,
                   engine_vars, dedup_vars, loop_vars, coral_vars>>

\* get_agent: if model not in _agents
get_agent_check(w) ==
    /\ call[w].pc = "check"
    /\ call' = [call EXCEPT ![w].pc = IF agents[call[w].model] = NoAgent
                                      THEN "create" ELSE "return"]
    /\ UNCHANGED <<agents, created, memory, user_model, manager_vars, slack_vars,
                   engine_vars, dedup_vars, loop_vars, coral_vars>>

\* get_agent: _agents[model] = ReactAgent(model=model); the new agent has a
\* new, empty MemorySaver
get_agent_create(w) ==
    LET m == call[w].model IN
    /\ call[w].pc = "create"
    /\ created[m] < Cardinality(Workers)
    /\ created' = [created EXCEPT ![m] = created[m] + 1]
    /\ agents' = [agents EXCEPT ![m] = created[m] + 1]
    /\ call' = [call EXCEPT ![w].pc = "return"]
    /\ UNCHANGED <<memory, user_model, manager_vars, slack_vars,
                   engine_vars, dedup_vars, loop_vars, coral_vars>>

\* get_agent: return _agents[model]
get_agent_return(w) ==
    /\ call[w].pc = "return"
    /\ call' = [call EXCEPT ![w].pc = "invoke", ![w].agent = agents[call[w].model]]
    /\ UNCHANGED <<agents, created, memory, user_model, manager_vars, slack_vars,
                   engine_vars, dedup_vars, loop_vars, coral_vars>>

\* invoke_agent: agent.invoke(state, config) or agent.graph.invoke(command,
\* config) on the agent get_agent returned
graph_invoke(w) ==
    LET c == call[w] IN
    /\ c.pc = "invoke"
    /\ memory' = IF c.resume THEN memory
                 ELSE [memory EXCEPT ![c.model][c.agent] = @ \cup {c.thread}]
    /\ call' = [call EXCEPT ![w] = NoCall]
    /\ UNCHANGED <<agents, created, user_model, manager_vars, slack_vars,
                   engine_vars, dedup_vars, loop_vars, coral_vars>>

NextAgents ==
    \/ \E model \in Models : set_user_settings(model)
    \/ \E w \in Workers, t \in Threads, resume \in BOOLEAN : invoke_agent_enter(w, t, resume)
    \/ \E w \in Workers : get_agent_check(w)
    \/ \E w \in Workers : get_agent_create(w)
    \/ \E w \in Workers : get_agent_return(w)
    \/ \E w \in Workers : graph_invoke(w)

SpecAgents == Init /\ [][NextAgents]_vars

\* some agent's MemorySaver holds a checkpoint of thread t
Checkpointed(t) == \E m \in Models, k \in Serials : t \in memory[m][k]

\* C23: a resume of a thread that an earlier turn checkpointed runs on an
\* agent whose MemorySaver holds that thread's checkpoint, whatever model the
\* user has selected in between
C23_ResumeFindsCheckpoint ==
    \A w \in Workers :
        (call[w].pc = "invoke" /\ call[w].resume /\ Checkpointed(call[w].thread))
            => call[w].thread \in memory[call[w].model][call[w].agent]

\* C24: at most one ReactAgent is ever built per model name, and the agent a
\* request is about to use is the one the cache holds for its model
C24_OneAgentPerModel ==
    /\ \A m \in Models : created[m] <= 1
    /\ \A w \in Workers :
          call[w].pc = "invoke" => call[w].agent = agents[call[w].model]

-----------------------------------------------------------------------------
\* the message check_auth looked at holds a call of a tool that requires
\* authorization and that the manager does not report completed for the user
PendingAuth(i) ==
    /\ Len(i.ch.messages) > 0
    /\ \E k \in 1..Len(Last(i.ch.messages).tool_calls) :
          LET tool_name == Last(i.ch.messages).tool_calls[k].name IN
          /\ requires_auth(tool_name)
          /\ \E c \in CodeChallenges :
                authorize(tool_name, i.user_id, c).status # "completed"

\* C25: after a check_auth step, when a tool is pending authorization the
\* state holds a non-empty auth message and the next step is auth_interrupt;
\* when none is pending the auth message is absent and the next step is tools
C25_CheckAuthStoresAndRoutes ==
    \A w \in Workers :
        LET i == inv[w] IN
        (i.pc # "idle" /\ Len(i.visited) > 0 /\ Last(i.visited) = {"check_auth"}) =>
            /\ i.pc = "running"
            /\ IF PendingAuth(i)
               THEN TruthyMsg(i.ch.auth_message) /\ i.next = {"auth_interrupt"}
               ELSE i.ch.auth_message = NoAuthMessage /\ i.next = {"tools"}


\* the names of the tools pending authorization among tool_calls[k..], each
\* once, in the order of their first call; acc holds the names found so far
RECURSIVE PendingNames(_, _, _, _)
PendingNames(tool_calls, k, user_id, acc) ==
    IF k > Len(tool_calls) THEN acc
    ELSE LET tool_name == tool_calls[k].name
             pending == /\ requires_auth(tool_name)
                        /\ \E c \in CodeChallenges :
                              authorize(tool_name, user_id, c).status # "completed"
             seen == \E j \in 1..Len(acc) : acc[j] = tool_name
         IN PendingNames(tool_calls, k + 1, user_id,
                         IF pending /\ ~seen THEN Append(acc, tool_name) ELSE acc)

\* C26: after a check_auth step for a user with tools pending authorization,
\* the stored auth message lists exactly the distinct pending tools in the
\* order of their first call, each with its authorization URL, in the singular
\* form for one tool and as a numbered list for two or more
C26_MessageListsPendingTools ==
    \A w \in Workers :
        LET i == inv[w] IN
        (/\ i.pc # "idle"
         /\ Len(i.visited) > 0
         /\ Last(i.visited) = {"check_auth"}
         /\ Truthy(i.user_id)
         /\ PendingAuth(i)) =>
            LET names == PendingNames(Last(i.ch.messages).tool_calls, 1, i.user_id, <<>>)
                m == i.ch.auth_message
            IN /\ m.kind = IF Len(names) = 1 THEN "single" ELSE "numbered"
               /\ Len(m.items) = Len(names)
               /\ \A k \in 1..Len(names) :
                     /\ m.items[k].name = names[k]
                     /\ \E c \in CodeChallenges :
                           m.items[k].url = get_auth_url(names[k], i.user_id, c)


\* C27: every step that runs tools ends with one tool-result message per tool
\* call of the last assistant message, each carrying its call id, whether the
\* tools succeeded or failed, and the step after it is agent
C27_ToolsStepAppendsResults ==
    \A w \in Workers :
        LET i == inv[w] IN
        (i.pc # "idle" /\ Len(i.visited) > 0 /\ "tools" \in Last(i.visited)) =>
            /\ i.pc = "running"
            /\ i.next = {"agent"}
            /\ \E k \in 1..Len(i.ch.messages) :
                  /\ i.ch.messages[k].role = "assistant"
                  /\ Len(i.ch.messages) = k + Len(i.ch.messages[k].tool_calls)
                  /\ \A c \in 1..Len(i.ch.messages[k].tool_calls) :
                        /\ i.ch.messages[k + c].role = "tool"
                        /\ i.ch.messages[k + c].tool_call_id = i.ch.messages[k].tool_calls[c].id


\* the transitions between steps that the engine is said to take
Edges == {<<"agent", "tools">>, <<"agent", "check_auth">>,
          <<"check_auth", "tools">>, <<"check_auth", "auth_interrupt">>,
          <<"auth_interrupt", "tools">>, <<"tools", "agent">>}

\* C28: every step of a run is a single node; a turn starts at agent and a
\* resume at tools; consecutive steps follow one of the transitions
\* agent -> {tools, check_auth}, check_auth -> {tools, auth_interrupt},
\* auth_interrupt -> tools, tools -> agent; a run ends after agent and is
\* suspended at auth_interrupt
C28_OnlyGraphEdges ==
    \A w \in Workers :
        LET i == inv[w] IN
        /\ \A j \in 1..Len(i.visited) : \E n \in Nodes : i.visited[j] = {n}
        /\ Len(i.visited) > 0 =>
              i.visited[1] = IF i.resume THEN {"tools"} ELSE {"agent"}
        /\ \A j \in 1..(Len(i.visited) - 1) :
              \E e \in Edges : i.visited[j] = {e[1]} /\ i.visited[j + 1] = {e[2]}
        /\ (i.pc = "ended" /\ Len(i.visited) > 0) => Last(i.visited) = {"agent"}
        /\ i.pc = "interrupted" => Last(i.visited) = {"auth_interrupt"}


\* C30: whenever no invocation is running on a thread, the thread's latest
\* checkpoint has no resume_input set
C30_NoResumeSignalPersists ==
    \A t \in Threads :
        (\A w \in Workers : inv[w].pc = "idle" \/ inv[w].thread # t) =>
            get_tuple(store, t).ch.resume_input = None

-----------------------------------------------------------------------------
(* One fresh turn followed through graph.invoke up to the engine's step     *)
(* limit.  ReactAgent.invoke passes a config without recursion_limit, so    *)
(* the graph runs with the engine's default.  The nodes only read the last  *)
(* message of the conversation, so loop.ch.messages keeps the last message  *)
(* alone.                                                                   *)

recursion_limit == 25

\* an engine that never runs out of steps
out_of_steps_never(step) == FALSE

\* the engine stops a run that has taken recursion_limit steps and still
\* has a node to run
out_of_steps(step) == step >= recursion_limit

\* get_langchain_tools of a registry entry: the names under which its tools
\* are bound to the model
get_langchain_tools(toolkit) ==
    CASE toolkit = "github" ->
            {"search_repositories", "get_repository_info", "list_recent_prs",
             "get_pr_details", "search_issues"}
      [] toolkit = "google" ->
            {"search_gmail", "list_drive_files", "get_calendar_events",
             "search_google_docs"}
      [] toolkit = "web" ->
            {"scrape_website", "get_website_summary", "extract_links", "get_page_title"}
      [] OTHER -> {}

\* get_tools: the tools of the selected registry entries
get_tools(tools) ==
    UNION {get_langchain_tools(tool_name) : tool_name \in tools \cap tools_registry}

\* names the model may put in a tool call of the followed turn: those of
\* Spec and a tool bound from the github toolkit
LoopToolNames == ToolNames \cup {"search_repositories"}
LoopCallSeqs == UNION {[1..n -> LoopToolNames] : n \in 0..MaxCalls}

\* what the model invocation can yield: an error or a response
LoopOutputs ==
    {[calls |-> <<>>, fail |-> TRUE]} \cup {[calls |-> c, fail |-> FALSE] : c \in LoopCallSeqs}

\* invoke_agent, fresh turn: agent.invoke(state, config)
LoopStart(user_id, prompt) ==
    /\ loop.pc = "idle"
    /\ loop' = [pc |-> "running", user_id |-> user_id,
                ch |-> Channels(<<Last(build_state("system", prompt, <<>>))>>,
                                NoAuthMessage, None),
                next |-> {"agent"}, pending_writes |-> NoPendingWrites, step |-> 0]
    /\ UNCHANGED <<engine_vars, dedup_vars, manager_vars, slack_vars, cache_vars, coral_vars>>

\* one superstep of the turn, or the engine's refusal to take another one
LoopStep ==
    /\ loop.pc = "running"
    /\ IF out_of_steps(loop.step)
       THEN loop' = [loop EXCEPT !.pc = "out_of_steps"]
       ELSE \E n \in loop.next,
               out \in (IF "agent" \in loop.next THEN LoopOutputs
                        ELSE {[calls |-> <<>>, fail |-> FALSE]}),
               outcome \in (IF ToolsExecutes(loop) THEN {"ok", "error"} ELSE {"ok"}),
               code_challenge \in (IF AsksGoogle(loop) THEN CodeChallenges
                                   ELSE {NoChallenge}) :
               LET r == RunNode(n, loop, out, outcome, code_challenge)
                   messages == loop.ch.messages \o r.msgs
               IN loop' =
                    IF r.status = "raise" THEN [loop EXCEPT !.pc = "raised"]
                    ELSE IF r.status = "interrupt" THEN [loop EXCEPT !.pc = "interrupted"]
                    ELSE [loop EXCEPT
                            !.pc = IF r.goto = {} THEN "ended" ELSE "running",
                            !.ch = Channels(<<Last(messages)>>,
                                            IF r.set_auth THEN r.auth
                                            ELSE loop.ch.auth_message,
                                            IF r.set_resume THEN r.resume
                                            ELSE loop.ch.resume_input),
                            !.next = r.goto,
                            !.step = IF loop.step < recursion_limit
                                     THEN loop.step + 1 ELSE loop.step]
    /\ UNCHANGED <<engine_vars, dedup_vars, manager_vars, slack_vars, cache_vars, coral_vars>>

\* invoke_agent returns the AgentResponse of the turn
LoopReturn ==
    /\ loop.pc \in {"ended", "raised", "interrupted", "out_of_steps"}
    /\ loop' = NoTurn
    /\ UNCHANGED <<engine_vars, dedup_vars, manager_vars, slack_vars, cache_vars, coral_vars>>

NextLoop ==
    \/ \E user_id \in UserIds, prompt \in FreshPrompts : LoopStart(user_id, prompt)
    \/ LoopStep
    \/ LoopReturn

\* graph.invoke runs the steps of a turn one after the other in the calling
\* thread: a running turn takes its next step
SpecLoop == Init /\ [][NextLoop]_vars /\ WF_vars(LoopStep)

\* C29 as stated: a turn ends only by the model's decision to stop calling
\* tools (done) or by a suspension; the engine never stops it
C29_EndsOnlyByModelOrSuspension ==
    loop.pc \in {"idle", "running", "ended", "interrupted"}

\* C29: every turn eventually ends, whatever the model answers: in done, in
\* a suspension, in the failure of a step, or because the engine refuses a
\* step beyond its limit of recursion_limit steps
C29_EveryTurnEnds ==
    (loop.pc = "running") ~>
        (loop.pc \in {"ended", "interrupted", "raised", "out_of_steps"})

\* a turn whose model asked for tools at every step was stopped by the engine
C29_Witness ==
    /\ loop.pc = "out_of_steps"
    /\ loop.step = recursion_limit
    /\ loop.next = {"tools"}

-----------------------------------------------------------------------------
\* the positions of the system messages of a conversation
SystemMessages(messages) ==
    {k \in 1..Len(messages) : messages[k].role = "system"}

\* C31: whenever the agent node is about to call the model, the conversation
\* it passes holds exactly one system message, however many turns the thread
\* has had
C31_OneSystemMessage ==
    \A w \in Workers :
        (inv[w].pc = "running" /\ "agent" \in inv[w].next) =>
            Cardinality(SystemMessages(inv[w].ch.messages)) = 1

-----------------------------------------------------------------------------
\* message m calls a tool that get_tools binds from an auth-required toolkit
CallsBoundAuthTool(m) ==
    \E k \in 1..Len(m.tool_calls) :
        m.tool_calls[k].name \in get_tools(auth_required_tools)

\* C32: an agent step whose response calls a tool bound from an auth-required
\* toolkit (github, google) is followed by check_auth
C32_BoundAuthToolsGated ==
    [][(/\ loop.pc = "running"
        /\ loop.next = {"agent"}
        /\ loop'.pc = "running"
        /\ CallsBoundAuthTool(Last(loop'.ch.messages)))
            => loop'.next = {"check_auth"}]_vars

-----------------------------------------------------------------------------
\* the request of worker w carries a deduplicated event that the guard let
\* through to the listener
InListener(w) ==
    /\ req[w].pc \in {"next", "failed"}
    /\ req[w].event_type \in dedup_event_types
    /\ req[w].event_id # NoEventId

\* C33: the id of a deduplicated event is in the record when its listener is
\* called; a failure of the listener and the handling of that failure leave
\* the record as it is; and a redelivery of the event that is tested while
\* the listener is called or has failed is answered as a duplicate
C33_FailedEventStaysRecorded ==
    [][\A w \in Workers :
          /\ InListener(w) => Held(req[w].event_id)
          /\ (InListener(w) /\ req'[w] # req[w]) =>
                processed_events' = processed_events
          /\ \A v \in Workers :
                (/\ InListener(w)
                 /\ req[v].pc = "test" /\ req'[v].pc # "test"
                 /\ req[v].event_id = req[w].event_id) => req'[v].pc = "duplicate"]_vars

\* the listener of an event has failed and a redelivery of the same event is
\* being answered as a duplicate
C33_Witness ==
    \E w \in Workers, v \in Workers :
        /\ InListener(w)
        /\ req[w].pc = "failed"
        /\ req[v].pc = "duplicate"
        /\ req[v].event_id = req[w].event_id


\* the request of worker w carries an event type outside the configured set
\* or no event id
NotDeduplicated(w) ==
    /\ req[w].pc # "idle"
    /\ (req[w].event_type \notin dedup_event_types \/ req[w].event_id = NoEventId)

\* C34: a request with an event type outside the configured set or without
\* event id never enters the guarded block: it is passed on to the listeners,
\* and none of its steps changes the record
C34_OtherEventsPassThrough ==
    [][\A w \in Workers :
          /\ NotDeduplicated(w) => req[w].pc \in {"next", "failed"}
          /\ (NotDeduplicated(w) /\ req'[w] # req[w]) =>
                processed_events' = processed_events]_vars

\* an event of a type outside the set is passed on although its id is in the
\* record, together with a second delivery of it
C34_Witness ==
    \E w \in Workers, v \in Workers :
        /\ w # v
        /\ req[w].pc = "next" /\ req[v].pc = "next"
        /\ req[w].event_type \notin dedup_event_types
        /\ req[v].event_type \notin dedup_event_types
        /\ req[w].event_id # NoEventId
        /\ req[v].event_id = req[w].event_id
        /\ Held(req[w].event_id)

-----------------------------------------------------------------------------
-----------------------------------------------------------------------------
\* the agent cached for model m holds a checkpoint of thread t: the
\* checkpoint a turn of a user of model m on t starts from
Visible(m, t) == agents[m] # NoAgent /\ t \in memory[m][agents[m]]

\* C36: a step of an invocation on one thread leaves the checkpoints of all
\* other threads as they are: what a later turn on another thread finds is
\* the same as if the invocation had not run
C36_OtherThreadsUntouched ==
    [][\A w \in Workers, t \in Threads, m \in Models :
          (call[w].pc # "idle" /\ call'[w] # call[w] /\ t # call[w].thread)
              => (Visible(m, t)' <=> Visible(m, t))]_vars

-----------------------------------------------------------------------------
(* main.py: the Coral main loop.  An exchange is named by the number of the *)
(* loop iteration that received its input.                                  *)

MAX_CHAT_HISTORY == 3
MaxIterations == 7

\* a history that is never trimmed
update_chat_history_append_only(chat_history, exchange) == Append(chat_history, exchange)

\* chat_history.append(...); if len(chat_history) > MAX_CHAT_HISTORY:
\* chat_history.pop(0)
update_chat_history(chat_history, exchange) ==
    LET appended == Append(chat_history, exchange) IN
    IF Len(appended) > MAX_CHAT_HISTORY THEN Tail(appended) ELSE appended

\* loop_iteration += 1; user_input = await get_user_input(...), which may raise
coral_get_user_input(ok) ==
    /\ coral.pc = "input"
    /\ coral.loop_iteration < MaxIterations
    /\ coral' = [coral EXCEPT !.loop_iteration = coral.loop_iteration + 1,
                              !.user_input = coral.loop_iteration + 1,
                              !.pc = IF ok THEN "invoke" ELSE "except"]
    /\ UNCHANGED <<engine_vars, dedup_vars, manager_vars, slack_vars, cache_vars, loop_vars>>

\* format_chat_history and agent_executor.ainvoke, which may raise
coral_ainvoke(ok) ==
    /\ coral.pc = "invoke"
    /\ coral' = [coral EXCEPT !.response = IF ok THEN coral.user_input ELSE coral.response,
                              !.pc = IF ok THEN "send" ELSE "except"]
    /\ UNCHANGED <<engine_vars, dedup_vars, manager_vars, slack_vars, cache_vars, loop_vars>>

\* await send_response(...), which may raise
coral_send_response(ok) ==
    /\ coral.pc = "send"
    /\ coral' = [coral EXCEPT !.pc = IF ok THEN "update" ELSE "except"]
    /\ UNCHANGED <<engine_vars, dedup_vars, manager_vars, slack_vars, cache_vars, loop_vars>>

\* the history is updated and the iteration ends with the sleep
coral_update_chat_history ==
    /\ coral.pc = "update"
    /\ coral' = [coral EXCEPT
                    !.chat_history =
                        update_chat_history(coral.chat_history,
                            [user_input |-> coral.user_input, response |-> coral.response]),
                    !.pc = "input"]
    /\ UNCHANGED <<engine_vars, dedup_vars, manager_vars, slack_vars, cache_vars, loop_vars>>

\* except Exception: the error is logged, the loop sleeps and goes on
coral_except ==
    /\ coral.pc = "except"
    /\ coral' = [coral EXCEPT !.pc = "input"]
    /\ UNCHANGED <<engine_vars, dedup_vars, manager_vars, slack_vars, cache_vars, loop_vars>>

NextCoral ==
    \/ \E ok \in BOOLEAN : coral_get_user_input(ok)
    \/ \E ok \in BOOLEAN : coral_ainvoke(ok)
    \/ \E ok \in BOOLEAN : coral_send_response(ok)
    \/ coral_update_chat_history
    \/ coral_except

SpecCoral == Init /\ [][NextCoral]_vars

\* the last n elements of a sequence
LastN(s, n) == IF Len(s) <= n THEN s ELSE SubSeq(s, Len(s) - n + 1, Len(s))

\* C37: the chat history never holds more than MAX_CHAT_HISTORY exchanges and
\* holds them in arrival order; an iteration that completes leaves the most
\* recent MAX_CHAT_HISTORY exchanges, its own last; every other step, a
\* failing one included, leaves the history as it is, and after a failure
\* the loop is back at the start of an iteration
C37_HistoryBounded ==
    [][/\ Len(coral.chat_history') <= MAX_CHAT_HISTORY
       /\ \A j \in 1..(Len(coral.chat_history') - 1) :
             coral.chat_history'[j].user_input < coral.chat_history'[j + 1].user_input
       /\ coral.pc = "update" =>
             coral.chat_history' =
                LastN(coral.chat_history \o
                        <<[user_input |-> coral.loop_iteration,
                           response |-> coral.loop_iteration]>>, MAX_CHAT_HISTORY)
       /\ coral.pc # "update" => coral.chat_history' = coral.chat_history
       /\ coral.pc = "except" => coral.pc' = "input"
       /\ coral.pc' = "except" => coral.pc # "update"]_vars

\* the history is full, its oldest exchange was dropped, and an iteration
\* that failed lies between two exchanges it holds
C37_Witness ==
    /\ coral.pc = "input"
    /\ Len(coral.chat_history) = MAX_CHAT_HISTORY
    /\ coral.chat_history[1].user_input > 1
    /\ \E j \in 1..(MAX_CHAT_HISTORY - 1) :
          coral.chat_history[j + 1].user_input > coral.chat_history[j].user_input + 1

=============================================================================
